---- MODULE Spec2Model ----
(***************************************************************************)
(* Model of clean_nexus_snapshots.py: the retention planner                *)
(* (parse_snapshot_version, process_snapshots), the remote client          *)
(* (make_api_request, get_all_components_paginated, delete_component), the *)
(* orchestrator (cleanup_job), the scheduler (run_scheduler) and the       *)
(* health probe (health_check).                                            *)
(*                                                                         *)
(* A version string is a tuple of one-character strings.  A component is a *)
(* record of the remote repository; the state holds component ids, the     *)
(* immutable records live in Pool.                                         *)
(***************************************************************************)
EXTENDS Integers, Sequences, FiniteSets, TLC

\* ---------------------------------------------------------------- bounds
\* Number of components the remote repository may hold (ids 1..NumRemote).
NumRemote == 6
\* Items the remote puts on one page of the listing.
PageSize == 2
\* retain_count ranges over 0..MaxRetain, max_retries over 0..MaxRetries.
MaxRetain == 2
MaxRetries == 2
\* Times of day a scheduled run of the process is followed over: the passes
\* it may start.
MaxPasses == 2
\* Components the remote may hold in a scheduled run (ids 1..SchedRemote).
SchedRemote == 3
\* Components the remote may hold while the health probe is watched.
ServiceRemote == 1
\* Planner inputs: listings of at most MaxListLen distinct components drawn
\* from ids 1..PlanPool.
PlanPool == 8
MaxListLen == 3

\* ------------------------------------------------------- program constants
\* RETRY_DELAY default, seconds.
retry_delay == 5

\* ------------------------------------------------------------ test data
Digits == {"0", "1", "2", "3", "4", "5", "6", "7", "8", "9"}

DigitVal(c) ==
    CASE c = "0" -> 0 [] c = "1" -> 1 [] c = "2" -> 2 [] c = "3" -> 3
      [] c = "4" -> 4 [] c = "5" -> 5 [] c = "6" -> 6 [] c = "7" -> 7
      [] c = "8" -> 8 [] c = "9" -> 9

B10 == <<"1", ".", "0">>
B20 == <<"2", ".", "0">>
Dash == <<"-">>
Jan01 == <<"2", "0", "2", "4", "0", "1", "0", "1", ".", "0", "1", "0", "0", "0", "0">>
Jan02 == <<"2", "0", "2", "4", "0", "1", "0", "2", ".", "0", "1", "0", "0", "0", "0">>
Jan03 == <<"2", "0", "2", "4", "0", "1", "0", "3", ".", "0", "1", "0", "0", "0", "0">>
Feb30 == <<"2", "0", "2", "4", "0", "2", "3", "0", ".", "0", "1", "0", "0", "0", "0">>
SnapshotWord == <<"S", "N", "A", "P", "S", "H", "O", "T">>

\* The component records the remote may serve: id, group, name, version.
\* Ids 1..3 are one branch (1.0) of app:lib, with the oldest timestamp
\* carrying the highest build number; 4 is a plain -SNAPSHOT version; 5 has
\* digits that are no calendar date; 6 is another branch (2.0) of app:lib;
\* 7 is the 1.0 branch of another artifact; 8 ties with 3.
PoolVersion(i) ==
    CASE i = 1 -> B10 \o Dash \o Jan01 \o Dash \o <<"3">>
      [] i = 2 -> B10 \o Dash \o Jan02 \o Dash \o <<"1">>
      [] i = 3 -> B10 \o Dash \o Jan02 \o Dash \o <<"2">>
      [] i = 4 -> B10 \o Dash \o SnapshotWord
      [] i = 5 -> B10 \o Dash \o Feb30 \o Dash \o <<"9">>
      [] i = 6 -> B20 \o Dash \o Jan01 \o Dash \o <<"1">>
      [] i = 7 -> B10 \o Dash \o Jan03 \o Dash \o <<"1">>
      [] i = 8 -> B10 \o Dash \o Jan02 \o Dash \o <<"0", "2">>
      [] i = 9 -> B20 \o Dash \o Jan03 \o Dash \o <<"1", "0">>
      [] OTHER -> B20 \o Dash \o Jan02 \o Dash \o <<"7">>

PoolName(i) == IF i = 7 THEN "core" ELSE "lib"

PoolGroup(i) == IF i = 9 THEN "org" ELSE "app"

PoolSize == IF PlanPool > NumRemote THEN PlanPool ELSE NumRemote

Pool ==
    [i \in 1..PoolSize |->
        [id |-> i, group |-> PoolGroup(i), name |-> PoolName(i),
         version |-> PoolVersion(i)]]

\* The component whose version is the plain 1.0-SNAPSHOT, and the one whose
\* version carries the date 20240230.
PlainSnapshotId ==
    CHOOSE i \in DOMAIN Pool : Pool[i].version = B10 \o Dash \o SnapshotWord

BadDateId ==
    CHOOSE i \in DOMAIN Pool :
        Pool[i].version = B10 \o Dash \o Feb30 \o Dash \o <<"9">>

\* ------------------------------------------------- parse_snapshot_version
IsDigits(s) == \A k \in 1..Len(s) : s[k] \in Digits

RECURSIVE DecimalValue(_)
\* int(): the value of a digit string, leading zeros allowed.
DecimalValue(s) ==
    IF s = <<>> THEN 0
    ELSE 10 * DecimalValue(SubSeq(s, 1, Len(s) - 1)) + DigitVal(s[Len(s)])

IsLeap(y) == (y % 4 = 0 /\ y % 100 # 0) \/ y % 400 = 0

DaysInMonth(y, m) ==
    IF m = 2 THEN (IF IsLeap(y) THEN 29 ELSE 28)
    ELSE IF m \in {4, 6, 9, 11} THEN 30 ELSE 31

\* datetime.strptime(ts, '%Y%m%d.%H%M%S') on 8 digits, a dot and 6 digits:
\* every field takes its full width.  valid is FALSE where strptime raises
\* ValueError; otherwise value is <<year, month, day, hour, minute, second>>.
Strptime(ts) ==
    LET y  == DecimalValue(SubSeq(ts, 1, 4))
        mo == DecimalValue(SubSeq(ts, 5, 6))
        d  == DecimalValue(SubSeq(ts, 7, 8))
        h  == DecimalValue(SubSeq(ts, 10, 11))
        mi == DecimalValue(SubSeq(ts, 12, 13))
        s  == DecimalValue(SubSeq(ts, 14, 15))
    IN  IF /\ y >= 1
           /\ mo \in 1..12
           /\ d >= 1 /\ d <= DaysInMonth(y, mo)
           /\ h <= 23 /\ mi <= 59 /\ s <= 59
        THEN [valid |-> TRUE, value |-> <<y, mo, d, h, mi, s>>]
        ELSE [valid |-> FALSE]

\* The end of the text SNAPSHOT_PATTERN matches: `$` matches at the end of
\* the string and also just before a final newline.
MatchEnd(v) ==
    IF Len(v) > 0 /\ v[Len(v)] = "\n" THEN Len(v) - 1 ELSE Len(v)

\* Position of the last "-" among v[1..e], 0 when there is none.
LastDash(v, e) ==
    LET ds == {k \in 1..e : v[k] = "-"}
    IN  IF ds = {} THEN 0 ELSE CHOOSE k \in ds : \A j \in ds : j <= k

\* SNAPSHOT_PATTERN.match(v): ^(.*?)-(\d{8}\.\d{6})-(\d+)$ .  The build is
\* the digit run after the last "-", the timestamp the 15 characters before
\* that "-", the base whatever precedes (it may be empty and may hold "-",
\* but no newline).  matched is FALSE for no match; otherwise the three
\* groups follow.
PatternMatch(v) ==
    LET e == MatchEnd(v)
        k == LastDash(v, e)
    IN  IF /\ k >= 17
           /\ k < e
           /\ IsDigits(SubSeq(v, k + 1, e))
           /\ v[k - 16] = "-"
           /\ IsDigits(SubSeq(v, k - 15, k - 8))
           /\ v[k - 7] = "."
           /\ IsDigits(SubSeq(v, k - 6, k - 1))
           /\ \A j \in 1..(k - 17) : v[j] # "\n"
        THEN [matched |-> TRUE,
              base |-> SubSeq(v, 1, k - 17),
              stamp |-> SubSeq(v, k - 15, k - 1),
              build |-> SubSeq(v, k + 1, e)]
        ELSE [matched |-> FALSE]

\* Mutant: the ValueError of strptime is not turned into None; the digits
\* are taken as they stand.
parse_unvalidated(version_str) ==
    LET match == PatternMatch(version_str)
    IN  IF ~match.matched THEN [parsed |-> FALSE]
        ELSE [parsed |-> TRUE,
              base_version |-> match.base \o Dash \o SnapshotWord,
              datetime |-> <<DecimalValue(SubSeq(match.stamp, 1, 4)),
                             DecimalValue(SubSeq(match.stamp, 5, 6)),
                             DecimalValue(SubSeq(match.stamp, 7, 8)),
                             DecimalValue(SubSeq(match.stamp, 10, 11)),
                             DecimalValue(SubSeq(match.stamp, 12, 13)),
                             DecimalValue(SubSeq(match.stamp, 14, 15))>>,
              build |-> DecimalValue(match.build)]

\* The returned value: parsed is FALSE for None; otherwise the triple
\* (base_version, datetime, build) follows.
parse_snapshot_version(version_str) ==
    LET match == PatternMatch(version_str)
    IN  IF ~match.matched THEN [parsed |-> FALSE]
        ELSE LET dt_obj == Strptime(match.stamp)
             IN  IF ~dt_obj.valid THEN [parsed |-> FALSE]
                 ELSE [parsed |-> TRUE,
                       base_version |-> match.base \o Dash \o SnapshotWord,
                       datetime |-> dt_obj.value,
                       build |-> DecimalValue(match.build)]

\* The parse of every pool component, computed once.
Parsed == [i \in DOMAIN Pool |-> parse_snapshot_version(Pool[i].version)]

\* ------------------------------------------------------ process_snapshots
\* Below, `CHOOSE r \in {F(x) : x \in {e}} : TRUE` is F(e) with e evaluated
\* once and bound to x, as a local variable of the program is.
Range(s) == {s[k] : k \in 1..Len(s)}

RECURSIVE Distinct(_)
\* The values of s without repeats, in order of first appearance: the key
\* order of a dict filled with setdefault.
Distinct(s) ==
    IF s = <<>> THEN <<>>
    ELSE CHOOSE result \in
             {IF s[Len(s)] \in Range(front) THEN front
              ELSE Append(front, s[Len(s)]) :
                 front \in {Distinct(SubSeq(s, 1, Len(s) - 1))}} :
             TRUE

RECURSIVE Flatten(_)
Flatten(ss) == IF ss = <<>> THEN <<>> ELSE Head(ss) \o Flatten(Tail(ss))

\* Mutant: the artifacts are keyed by group alone.
ArtifactKeyGroupOnly(c) == <<Pool[c].group>>

\* key = (comp["group"], comp["name"])
ArtifactKey(c) == <<Pool[c].group, Pool[c].name>>

\* The keys of `artifacts`, in iteration order.
ArtifactKeys(components) ==
    CHOOSE keys \in
        {Distinct(ks) :
            ks \in {[k \in 1..Len(components) |->
                        ArtifactKey(components[k])]}} :
        TRUE

\* artifacts[key]: the components of one artifact, in listing order.
ArtifactComps(components, key) ==
    SelectSeq(components, LAMBDA c : ArtifactKey(c) = key)

\* The components of comps that parse, in listing order.
ParsedComps(comps) == SelectSeq(comps, LAMBDA c : Parsed[c].parsed)

\* The keys of `version_branches` of one artifact, in iteration order.
BranchKeys(comps) ==
    CHOOSE bases \in
        {Distinct([k \in 1..Len(ok) |-> Parsed[ok[k]].base_version]) :
            ok \in {ParsedComps(comps)}} :
        TRUE

\* version_branches[base_version] of one artifact, before the sort.
BranchSnapshots(comps, base_version) ==
    SelectSeq(ParsedComps(comps),
              LAMBDA c : Parsed[c].base_version = base_version)

\* The branches process_snapshots visits, in the order of its two nested
\* loops: each is [key, base_version].
ArtifactBranches(components, key) ==
    CHOOSE queue \in
        {[b \in 1..Len(bases) |-> [key |-> key, base_version |-> bases[b]]] :
            bases \in {BranchKeys(ArtifactComps(components, key))}} :
        TRUE

BranchQueue(components) ==
    CHOOSE queue \in
        {Flatten(parts) :
            parts \in
                {[a \in 1..Len(keys) |->
                     ArtifactBranches(components, keys[a])] :
                 keys \in {ArtifactKeys(components)}}} :
        TRUE

RECURSIVE TupleLess(_, _)
\* a < b for two tuples of integers of equal length, first field first.
TupleLess(a, b) ==
    /\ a # <<>>
    /\ \/ Head(a) < Head(b)
       \/ Head(a) = Head(b) /\ TupleLess(Tail(a), Tail(b))

\* Mutant: the build number is compared before the timestamp.
SortKeyBuildFirst(c) == <<Parsed[c].build>> \o Parsed[c].datetime

\* The sort key (x["datetime"], x["build"]) of a parsed component.
SortKey(c) == Append(Parsed[c].datetime, Parsed[c].build)

\* Mutant: x goes ahead of the elements whose key equals its own.
InsertDescendingUnstable(sorted, x) ==
    LET ahead == {k \in 1..Len(sorted) :
                    TupleLess(SortKey(x), SortKey(sorted[k]))}
        n == Cardinality(ahead)
    IN  SubSeq(sorted, 1, n) \o <<x>> \o SubSeq(sorted, n + 1, Len(sorted))

\* x goes behind every element whose key is not smaller than its own.
InsertDescending(sorted, x) ==
    LET ahead == {k \in 1..Len(sorted) :
                    ~TupleLess(SortKey(sorted[k]), SortKey(x))}
        n == Cardinality(ahead)
    IN  SubSeq(sorted, 1, n) \o <<x>> \o SubSeq(sorted, n + 1, Len(sorted))

RECURSIVE SortDescending(_)
\* snapshots.sort(key=..., reverse=True): descending and stable.
SortDescending(snapshots) ==
    IF snapshots = <<>> THEN <<>>
    ELSE CHOOSE result \in
             {InsertDescending(sorted, snapshots[Len(snapshots)]) :
                 sorted \in
                     {SortDescending(SubSeq(snapshots, 1, Len(snapshots) - 1))}} :
             TRUE

\* to_delete of one sorted branch: snapshots[retain_count:] when the branch
\* is longer than retain_count, nothing otherwise.
ToDelete(snapshots, retain) ==
    IF Len(snapshots) > retain
    THEN SubSeq(snapshots, retain + 1, Len(snapshots))
    ELSE <<>>

\* ------------------------------------------------------------------ state
VARIABLES
    retain_count,        \* RETAIN_COUNT
    dry_run,             \* DRY_RUN
    max_retries,         \* MAX_RETRIES
    remote,              \* ids of the components the remote repository holds
    remoteAtStart,       \* remote as it was when the current pass started
    pc,                  \* idle, fetching, planning, applying, done
    passes,              \* cleanup passes started so far
    last_run_time,       \* 0 for None, else the number of the pass that set it
    last_run_status,     \* never_run, success, partial_failure, failed
    all_components,      \* get_all_components_paginated: items gathered
    continuation_token,  \* 0 for None, else the offset the remote handed out
    page_num,
    fetched,             \* pending, list, None, raised: how the fetch ended
    components,          \* the list handed to process_snapshots
    branches,            \* branches process_snapshots has still to visit
    to_delete,           \* rest of the current branch's to_delete loop
    success,             \* process_snapshots' success flag
    attempt,             \* make_api_request: the loop index of the next try
    callMethod,          \* most recent make_api_request: "-", GET, DELETE
    callTarget,          \* its page token (GET) or component id (DELETE)
    callState,           \* its state: none, running, returned, raised, fell_through
    callStatus,          \* status code of the response it returned, else 0
    callLog,             \* its tries (by outcome) and sleeps, in order
    waited,              \* seconds it spent in time.sleep
    marked,              \* ids put in a to_delete list in this pass
    deleteCalls,         \* ids delete_component was invoked on in this pass
    requested,           \* ids a DELETE request was sent for in this pass
    failedDeletes,       \* ids whose delete_component returned False
    schedule_time,       \* SCHEDULE_TIME: "manual" or a time of day
    due,                 \* the scheduled job is due: its time of day has come
    running,             \* cleanup_job invocations begun and not yet over
    prevStatus,          \* last_run_status as the current pass found it
    prevFailed,          \* failedDeletes of the pass before the current one
    served,              \* pages the remote has answered in this pass
    response,            \* the most recent answer of GET /health
    parse_input,         \* an argument of parse_snapshot_version
    parse_result         \* what it returned for that argument

vars ==
    <<retain_count, dry_run, max_retries, remote, remoteAtStart, pc, passes,
      last_run_time,
      last_run_status, all_components, continuation_token, page_num, fetched,
      components, branches, to_delete, success, attempt, callMethod,
      callTarget, callState, callStatus, callLog, waited, marked,
      deleteCalls, requested, failedDeletes, schedule_time, due, running,
      prevStatus, prevFailed, served, response, parse_input, parse_result>>

configVars ==
    <<retain_count, dry_run, max_retries, remoteAtStart, schedule_time>>
fetchVars == <<all_components, continuation_token, page_num>>
callVars ==
    <<attempt, callMethod, callTarget, callState, callStatus, callLog, waited>>
deleteVars == <<deleteCalls, requested, failedDeletes>>
runVars == <<pc, last_run_status, running, due>>
historyVars == <<prevStatus, prevFailed>>
\* What no step of a pass reads or writes.
outsideVars == <<response, parse_input, parse_result>>

\* ----------------------------------------------------------------- remote
\* The ids of a set as a sequence, smallest first.
Ascending(S) ==
    [k \in 1..Cardinality(S) |->
        CHOOSE x \in S : Cardinality({y \in S : y < x}) = k - 1]

Min(a, b) == IF a < b THEN a ELSE b

\* The remote's answer to the list request carrying `token` (0: none): a
\* page of items and the token of the next page (0: none).
ListPage(token) ==
    CHOOSE page \in
        {[items |-> SubSeq(listing, token + 1,
                           Min(token + PageSize, Len(listing))),
          continuationToken |->
              IF token + PageSize < Len(listing)
              THEN token + PageSize ELSE 0] :
            listing \in {Ascending(remote)}} :
        TRUE

\* ------------------------------------------------------- make_api_request
\* What one try of session.request can come to.
\*   ok          GET answered 200 with a page
\*   bad_json    GET answered 200 with a body that is no JSON
\*   deleted     DELETE removed the component and answered 204
\*   lost        DELETE removed the component, the answer never arrived
\*   not_found   DELETE of an absent component answered 404
\*   other_2xx   DELETE answered a success status that is not 204
\*   error       connection error, timeout or 5xx; the remote is unchanged
GetOutcomes == {"ok", "bad_json", "error"}

DeleteOutcomes(c) ==
    IF c \in remote THEN {"deleted", "lost", "other_2xx", "error"}
    ELSE {"not_found", "other_2xx", "error"}

\* Whether the try raised requests.exceptions.RequestException
\* (raise_for_status raises it for 404 and 5xx).
Raises(outcome) == outcome \in {"lost", "not_found", "error"}

\* Status code of the response a try returned.
StatusOf(outcome) == IF outcome = "deleted" THEN 204 ELSE 200

\* Mutant: the retry test is off by one, `attempt < max_retries`.
CallAfterOffByOne(outcome) ==
    IF ~Raises(outcome) THEN "returned"
    ELSE IF attempt < max_retries THEN "running"
    ELSE "raised"

\* The state of the call after the try of loop index `attempt` came to
\* `outcome`: the response is returned; or the loop sleeps and goes on; or,
\* on the last index, NexusAPIError is raised.
CallAfter(outcome) ==
    IF ~Raises(outcome) THEN "returned"
    ELSE IF attempt < max_retries - 1 THEN "running"
    ELSE "raised"

\* The log of the call after that try.
LogAfter(outcome) ==
    LET log == IF attempt = 0 THEN <<>> ELSE callLog
    IN  IF Raises(outcome) /\ attempt < max_retries - 1
        THEN log \o <<outcome, "sleep">>
        ELSE Append(log, outcome)

\* The call's variables after that try of a `method` request for `target`.
CallStep(method, target, outcome) ==
    /\ callMethod' = method
    /\ callTarget' = target
    /\ callState' = CallAfter(outcome)
    /\ callStatus' = IF Raises(outcome) THEN 0 ELSE StatusOf(outcome)
    /\ callLog' = LogAfter(outcome)
    /\ waited' = (IF attempt = 0 THEN 0 ELSE waited)
                  + (IF CallAfter(outcome) = "running" THEN retry_delay ELSE 0)
    /\ attempt' = IF CallAfter(outcome) = "running" THEN attempt + 1 ELSE 0

\* ------------------------------------------------------------ cleanup_job
\* Mutant: the start of a pass leaves last_run_time alone.
NowUnwritten == last_run_time

\* datetime.now() at the start of a pass: passes are numbered, and the
\* number of the pass stands for its time.
Now == passes + 1

\* Mutant: the except clause leaves last_run_status as it was.
StatusUnsetOnError == last_run_status

\* except Exception: last_run_status = "failed"
StatusOnError == "failed"

\* The pass ends: last_run_status is set and cleanup_job returns to the
\* scheduler, which works out the job's next run; a time of day that came
\* while the pass ran is either still pending then or skipped.
EndPass(status) ==
    /\ last_run_status' = status
    /\ pc' = "done"
    /\ running' = running - 1
    /\ due' \in {due, FALSE}

\* Mutant: the job is started from a thread of its own.
SchedulerAlwaysFree == TRUE

\* The scheduler thread is in run_scheduler's own code: cleanup_job is a
\* plain call, so the thread is not back before the pass is over.
SchedulerFree == pc \in {"idle", "done"}

\* run_scheduler calls cleanup_job, once in manual mode and whenever the job
\* is due otherwise; cleanup_job starts and get_all_components_paginated
\* sets up its loop.
StartPass ==
    /\ SchedulerFree
    /\ IF schedule_time = "manual" THEN passes = 0 ELSE due
    /\ passes' = passes + 1
    /\ last_run_time' = Now
    /\ pc' = "fetching"
    /\ running' = running + 1
    /\ due' = FALSE
    /\ prevStatus' = last_run_status
    /\ prevFailed' = failedDeletes
    /\ served' = <<>>
    /\ all_components' = <<>>
    /\ continuation_token' = 0
    /\ page_num' = 1
    /\ fetched' = "pending"
    /\ components' = <<>>
    /\ branches' = <<>>
    /\ to_delete' = <<>>
    /\ success' = TRUE
    /\ attempt' = 0
    /\ callMethod' = "-"
    /\ callTarget' = 0
    /\ callState' = "none"
    /\ callStatus' = 0
    /\ callLog' = <<>>
    /\ waited' = 0
    /\ marked' = {}
    /\ deleteCalls' = {}
    /\ requested' = {}
    /\ failedDeletes' = {}
    /\ remoteAtStart' = remote
    /\ UNCHANGED <<retain_count, dry_run, max_retries, schedule_time, remote,
                   last_run_status, outsideVars>>

\* Mutant: on a failed page the items gathered so far are returned.
FetchReturnsPartial ==
    /\ fetched' = "list"
    /\ components' = all_components
    /\ pc' = "planning"
    /\ UNCHANGED <<fetchVars, last_run_status, running, due>>

\* get_all_components_paginated catches NexusAPIError or JSONDecodeError and
\* returns None, whatever it gathered; cleanup_job records `failed`.
FetchFails ==
    /\ fetched' = "None"
    /\ EndPass("failed")
    /\ UNCHANGED <<fetchVars, components>>

\* Mutant: the items of a page replace what was gathered.
GatheredReplaced(items) == items

\* all_components.extend(items)
Gathered(items) == all_components \o items

\* Mutant: the loop breaks after any page.
NoMorePagesEver(page) == TRUE

\* `if not continuation_token: break`
NoMorePages(page) == page.continuationToken = 0

\* One try of the list request of the current page, and what
\* get_all_components_paginated and cleanup_job do with its end.
FetchAttempt ==
    /\ pc = "fetching"
    /\ attempt < max_retries
    /\ \E outcome \in GetOutcomes, page \in {ListPage(continuation_token)} :
        /\ CallStep("GET", continuation_token, outcome)
        /\ served' = IF outcome = "ok"
                     THEN Append(served, [token |-> continuation_token,
                                          items |-> page.items,
                                          continuationToken |->
                                              page.continuationToken])
                     ELSE served
        /\ CASE outcome = "ok" /\ ~NoMorePages(page) ->
                  /\ all_components' = Gathered(page.items)
                  /\ continuation_token' = page.continuationToken
                  /\ page_num' = page_num + 1
                  /\ UNCHANGED <<runVars, fetched, components>>
             [] outcome = "ok" /\ NoMorePages(page) ->
                  /\ all_components' = Gathered(page.items)
                  /\ continuation_token' = page.continuationToken
                  /\ fetched' = "list"
                  /\ components' = Gathered(page.items)
                  /\ pc' = "planning"
                  /\ UNCHANGED <<page_num, last_run_status, running, due>>
             [] outcome = "bad_json" \/ CallAfter(outcome) = "raised" ->
                  FetchFails
             [] OTHER ->
                  UNCHANGED <<runVars, fetched, components, fetchVars>>
    /\ UNCHANGED <<configVars, remote, passes, last_run_time, branches,
                   to_delete, success, marked, deleteVars, historyVars,
                   outsideVars>>

\* process_snapshots up to its loops: an empty list returns True at once.
Plan ==
    /\ pc = "planning"
    /\ IF components = <<>>
       THEN /\ EndPass("success")
            /\ UNCHANGED branches
       ELSE /\ branches' = BranchQueue(components)
            /\ pc' = "applying"
            /\ UNCHANGED <<last_run_status, running, due>>
    /\ success' = TRUE
    /\ UNCHANGED <<configVars, remote, passes, last_run_time, fetchVars,
                   fetched, components, to_delete, callVars, marked,
                   deleteVars, historyVars, served, outsideVars>>

\* The snapshots of a branch after the sort.
SortedBranch(branch) ==
    CHOOSE sorted \in
        {SortDescending(snapshots) :
            snapshots \in
                {BranchSnapshots(ArtifactComps(components, branch.key),
                                 branch.base_version)}} :
        TRUE

\* Mutant: the dry_run test is missing.
AppliedAlways(doomed) == doomed

\* The items of to_delete the loop calls delete_component on: none of them
\* in a dry run.
Applied(doomed) == IF dry_run THEN <<>> ELSE doomed

\* The next branch is sorted and its to_delete computed; a dry run walks the
\* to_delete loop without a call.
ProcessBranch ==
    /\ pc = "applying"
    /\ to_delete = <<>>
    /\ branches # <<>>
    /\ \E doomed \in {ToDelete(snapshots, retain_count) :
                          snapshots \in {SortedBranch(Head(branches))}} :
           /\ marked' = marked \cup Range(doomed)
           /\ to_delete' = Applied(doomed)
    /\ branches' = Tail(branches)
    /\ UNCHANGED <<configVars, remote, runVars, passes, last_run_time,
                   fetchVars, fetched, components, success, callVars,
                   deleteVars, historyVars, served, outsideVars>>

\* Mutant: any response make_api_request returns counts as deleted.
DeleteReturnsAnyResponse(outcome) == CallAfter(outcome) = "returned"

\* delete_component's return value once make_api_request has ended.
DeleteReturns(outcome) ==
    CallAfter(outcome) = "returned" /\ StatusOf(outcome) = 204

\* Mutant: the flag is overwritten by the last call's result.
SuccessLastWins(outcome) == DeleteReturns(outcome)

\* Mutant: the to_delete loop breaks at the first failed deletion.
RestBreaksOnFailure(outcome) ==
    IF DeleteReturns(outcome) THEN Tail(to_delete) ELSE <<>>

\* The success flag after delete_component returned: one False clears it
\* for the rest of the pass.
SuccessAfter(outcome) == success /\ DeleteReturns(outcome)

\* What is left of the to_delete loop after delete_component returned: the
\* loop goes on whatever the call returned.
RestAfter(outcome) == Tail(to_delete)

\* One try of the DELETE request of the component at the head of to_delete;
\* when the call ends, delete_component returns and the loop moves on.
DeleteAttempt ==
    /\ pc = "applying"
    /\ to_delete # <<>>
    /\ attempt < max_retries
    /\ LET c == Head(to_delete)
       IN  \E outcome \in DeleteOutcomes(c) :
            /\ CallStep("DELETE", c, outcome)
            /\ remote' = IF outcome \in {"deleted", "lost"}
                         THEN remote \ {c} ELSE remote
            /\ deleteCalls' = deleteCalls \cup {c}
            /\ requested' = requested \cup {c}
            /\ IF CallAfter(outcome) = "running"
               THEN UNCHANGED <<to_delete, success, failedDeletes>>
               ELSE /\ to_delete' = RestAfter(outcome)
                    /\ success' = SuccessAfter(outcome)
                    /\ failedDeletes' =
                         IF DeleteReturns(outcome) THEN failedDeletes
                         ELSE failedDeletes \cup {c}
    /\ UNCHANGED <<configVars, runVars, passes, last_run_time, fetchVars,
                   fetched, components, branches, marked, historyVars,
                   served, outsideVars>>

\* range(max_retries) is empty: make_api_request makes no try and returns
\* None, and the caller's use of the missing response raises AttributeError,
\* which only cleanup_job's `except Exception` catches.
RequestFallsThrough ==
    /\ pc \in {"fetching", "applying"}
    /\ pc = "applying" => to_delete # <<>>
    /\ attempt >= max_retries
    /\ callMethod' = IF pc = "fetching" THEN "GET" ELSE "DELETE"
    /\ callTarget' = IF pc = "fetching" THEN continuation_token
                     ELSE Head(to_delete)
    /\ callState' = "fell_through"
    /\ callStatus' = 0
    /\ callLog' = <<>>
    /\ waited' = 0
    /\ attempt' = 0
    /\ fetched' = IF pc = "fetching" THEN "raised" ELSE fetched
    /\ deleteCalls' = IF pc = "applying"
                      THEN deleteCalls \cup {Head(to_delete)}
                      ELSE deleteCalls
    /\ EndPass(StatusOnError)
    /\ UNCHANGED <<configVars, remote, passes, last_run_time, fetchVars,
                   components, branches, to_delete, success, marked,
                   requested, failedDeletes, historyVars, served,
                   outsideVars>>

\* process_snapshots returns its flag and cleanup_job records the outcome.
FinishProcess ==
    /\ pc = "applying"
    /\ branches = <<>>
    /\ to_delete = <<>>
    /\ EndPass(IF success THEN "success" ELSE "partial_failure")
    /\ UNCHANGED <<configVars, remote, passes, last_run_time, fetchVars,
                   fetched, components, branches, to_delete, success,
                   callVars, marked, deleteVars, historyVars, served,
                   outsideVars>>

\* ---------------------------------------------------------- run_scheduler
\* The clock reaches schedule_time: the job is due at the next run_pending.
\* A run of the process is followed over MaxPasses such times.
TriggerTime ==
    /\ schedule_time # "manual"
    /\ ~due
    /\ passes < MaxPasses
    /\ due' = TRUE
    /\ UNCHANGED <<configVars, remote, pc, passes, last_run_time,
                   last_run_status, running, fetchVars, fetched, components,
                   branches, to_delete, success, callVars, marked,
                   deleteVars, historyVars, served, outsideVars>>

\* ----------------------------------------------------------- health_check
\* Every variable of a cleanup pass and of the scheduler.
passVars ==
    <<configVars, remote, runVars, passes, last_run_time, fetchVars, fetched,
      components, branches, to_delete, success, callVars, marked, deleteVars,
      historyVars, served>>

\* No probe has been answered yet.
NoResponse == [status_code |-> 0]

\* What requests.get of the status endpoint can come to.
StatusOutcomes == {"status_200", "status_other", "exception"}

\* check_nexus_connectivity: True for a 200 answer, False for any other
\* answer and for any exception.
check_nexus_connectivity(outcome) == outcome = "status_200"

\* Mutant: the recorded outcome has to be `success`.
AllApplicationNeedsSuccess(application) ==
    /\ application.last_run_time # 0
    /\ application.last_run_status = "success"
    /\ application.schedule # ""

\* all(category.values()) of the "application" category: None (0 here) is
\* false, a string is true unless it is empty.
AllApplication(application) ==
    /\ application.last_run_time # 0
    /\ application.last_run_status # ""
    /\ application.schedule # ""

\* The response of health_check, given what the two storage checks and the
\* connectivity check came to.
health_check(log_file_writable, disk_space, nexus_reachable) ==
    LET checks ==
            [storage |-> [log_file_writable |-> log_file_writable,
                          disk_space |-> disk_space],
             connectivity |-> [nexus_reachable |-> nexus_reachable],
             application |-> [last_run_time |-> last_run_time,
                              last_run_status |-> last_run_status,
                              schedule |-> schedule_time]]
        is_healthy ==
            /\ checks.storage.log_file_writable /\ checks.storage.disk_space
            /\ checks.connectivity.nexus_reachable
            /\ AllApplication(checks.application)
    IN  [status_code |-> IF is_healthy THEN 200 ELSE 503,
         status |-> IF is_healthy THEN "healthy" ELSE "unhealthy",
         checks |-> checks]

\* The server thread answers one GET /health, at any moment of the process.
HealthCheck ==
    /\ \E log_file_writable, disk_space \in BOOLEAN,
          probe \in StatusOutcomes :
           response' = health_check(log_file_writable, disk_space,
                                    check_nexus_connectivity(probe))
    /\ UNCHANGED <<passVars, parse_input, parse_result>>

\* ------------------------------------------- parse_snapshot_version, called
NotCalled == [called |-> FALSE]

\* parse_snapshot_version is called on parse_input and returns.
Parse ==
    /\ ~parse_result.called
    /\ parse_result' =
           [called |-> TRUE, value |-> parse_snapshot_version(parse_input)]
    /\ UNCHANGED <<passVars, response, parse_input>>

Feb29 == <<"2", "0", "2", "4", "0", "2", "2", "9", ".", "2", "3", "5", "9", "5", "9">>
Feb29Common == <<"2", "0", "2", "3", "0", "2", "2", "9", ".", "0", "1", "0", "0", "0", "0">>
Month13 == <<"2", "0", "2", "4", "1", "3", "0", "1", ".", "0", "1", "0", "0", "0", "0">>
Day00 == <<"2", "0", "2", "4", "0", "1", "0", "0", ".", "0", "1", "0", "0", "0", "0">>
Hour24 == <<"2", "0", "2", "4", "0", "1", "0", "1", ".", "2", "4", "0", "0", "0", "0">>
Minute60 == <<"2", "0", "2", "4", "0", "1", "0", "1", ".", "0", "1", "6", "0", "0", "0">>
Second60 == <<"2", "0", "2", "4", "0", "1", "0", "1", ".", "0", "1", "0", "0", "6", "0">>
Year0 == <<"0", "0", "0", "0", "0", "1", "0", "1", ".", "0", "1", "0", "0", "0", "0">>
ShortDate == <<"2", "0", "2", "4", "0", "1", "1", ".", "0", "1", "0", "0", "0", "0">>
LetterDate == <<"2", "0", "2", "4", "o", "1", "0", "1", ".", "0", "1", "0", "0", "0", "0">>
NoDot == <<"2", "0", "2", "4", "0", "1", "0", "1", "0", "0", "1", "0", "0", "0", "0">>

\* Version strings parse_snapshot_version is called on: a base, a separator,
\* a timestamp, a separator, a build and a tail, each well or ill formed.
ParseStamps ==
    {Jan01, Feb30, Feb29, Feb29Common, Month13, Day00, Hour24, Minute60,
     Second60, Year0, ShortDate, LetterDate, NoDot}

ParseBases == {<<>>, B10, <<"1", "-", "r", "c">>, <<"a", "\n", "b">>}

ParseSeparators == {Dash, <<"_">>}

ParseBuilds == {<<"3">>, <<"0", "2">>, <<"1", "0">>, <<>>, <<"x">>}

ParseTails == {<<>>, <<"\n">>, <<"\n", "\n">>, Dash \o SnapshotWord}

ParseInputs ==
    {b \o s1 \o st \o s2 \o n \o tl :
        b \in ParseBases, s1 \in ParseSeparators, st \in ParseStamps,
        s2 \in ParseSeparators, n \in ParseBuilds, tl \in ParseTails}
    \cup {<<>>, B10 \o Dash \o SnapshotWord}

\* --------------------------------------------------------- specifications
Quiet ==
    /\ pc = "idle"
    /\ passes = 0
    /\ last_run_time = 0
    /\ last_run_status = "never_run"
    /\ due = FALSE
    /\ running = 0
    /\ prevStatus = "never_run"
    /\ prevFailed = {}
    /\ served = <<>>
    /\ all_components = <<>>
    /\ continuation_token = 0
    /\ page_num = 1
    /\ fetched = "pending"
    /\ components = <<>>
    /\ branches = <<>>
    /\ to_delete = <<>>
    /\ success = TRUE
    /\ attempt = 0
    /\ callMethod = "-"
    /\ callTarget = 0
    /\ callState = "none"
    /\ callStatus = 0
    /\ callLog = <<>>
    /\ waited = 0
    /\ marked = {}
    /\ deleteCalls = {}
    /\ requested = {}
    /\ failedDeletes = {}

\* No probe has come in and the parser is not looked at on its own.
Unprobed ==
    /\ response = NoResponse
    /\ parse_input = <<>>
    /\ parse_result = NotCalled

\* The process after start-up in manual mode, for any configuration and any
\* content of the remote repository: run_scheduler runs one pass.
Init ==
    /\ retain_count \in 0..MaxRetain
    /\ dry_run \in BOOLEAN
    /\ max_retries \in 0..MaxRetries
    /\ schedule_time = "manual"
    /\ remote \in SUBSET (1..NumRemote)
    /\ remoteAtStart = remote
    /\ Quiet
    /\ Unprobed

Next ==
    \/ StartPass
    \/ FetchAttempt
    \/ Plan
    \/ ProcessBranch
    \/ DeleteAttempt
    \/ RequestFallsThrough
    \/ FinishProcess

Spec == Init /\ [][Next]_vars

\* Every step of a pass ends: a try returns or times out, a sleep is over
\* after retry_delay seconds, and the scheduler thread runs nothing else.
FairSpec == Spec /\ WF_vars(Next)

\* Listings of at most MaxListLen distinct components of the pool.
Listings ==
    UNION {{l \in [1..n -> 1..PlanPool] :
                \A i, j \in 1..n : i # j => l[i] # l[j]} :
           n \in 0..MaxListLen}

\* process_snapshots entered in a dry run with any listing the fetch may
\* have returned.
PlanInit ==
    /\ retain_count \in 0..MaxRetain
    /\ dry_run = TRUE
    /\ max_retries = MaxRetries
    /\ schedule_time = "manual"
    /\ components \in Listings
    /\ all_components = components
    /\ remote = Range(components)
    /\ remoteAtStart = remote
    /\ pc = "planning"
    /\ passes = 1
    /\ last_run_time = 1
    /\ last_run_status = "never_run"
    /\ due = FALSE
    /\ running = 1
    /\ prevStatus = "never_run"
    /\ prevFailed = {}
    /\ served = <<[token |-> 0, items |-> components, continuationToken |-> 0]>>
    /\ continuation_token = 0
    /\ page_num = 1
    /\ fetched = "list"
    /\ branches = <<>>
    /\ to_delete = <<>>
    /\ success = TRUE
    /\ attempt = 0
    /\ callMethod = "GET"
    /\ callTarget = 0
    /\ callState = "returned"
    /\ callStatus = 200
    /\ callLog = <<"ok">>
    /\ waited = 0
    /\ marked = {}
    /\ deleteCalls = {}
    /\ requested = {}
    /\ failedDeletes = {}
    /\ Unprobed

PlanNext ==
    \/ Plan
    \/ ProcessBranch
    \/ FinishProcess

PlanSpec == PlanInit /\ [][PlanNext]_vars

\* The process after start-up with a daily schedule, the remote holding any
\* of the components 1..SchedRemote.
SchedInit ==
    /\ retain_count \in 0..MaxRetain
    /\ dry_run \in BOOLEAN
    /\ max_retries \in 0..MaxRetries
    /\ schedule_time = "03:00"
    /\ remote \in SUBSET (1..SchedRemote)
    /\ remoteAtStart = remote
    /\ Quiet
    /\ Unprobed

\* The scheduler thread and the clock.
SchedNext ==
    \/ Next
    \/ TriggerTime

SchedSpec == SchedInit /\ [][SchedNext]_vars

\* The scheduler thread gets to run; the clock owes nothing.
FairSchedSpec == SchedSpec /\ WF_vars(Next)

\* The scheduler thread, the clock and the health server's thread.
ServiceNext ==
    \/ Next
    \/ TriggerTime
    \/ HealthCheck

\* The process after start-up with a daily schedule and the health server
\* up: every parseable component is superseded and deletions are real, so a
\* pass can come to each of its outcomes.
ServiceInit ==
    /\ retain_count = 0
    /\ dry_run = FALSE
    /\ max_retries \in 0..MaxRetries
    /\ schedule_time = "03:00"
    /\ remote \in SUBSET (1..ServiceRemote)
    /\ remoteAtStart = remote
    /\ Quiet
    /\ Unprobed

ServiceSpec == ServiceInit /\ [][ServiceNext]_vars

\* parse_snapshot_version called on one version string.
ParseInit ==
    /\ retain_count = MaxRetain
    /\ dry_run = TRUE
    /\ max_retries = MaxRetries
    /\ schedule_time = "manual"
    /\ remote = {}
    /\ remoteAtStart = remote
    /\ Quiet
    /\ response = NoResponse
    /\ parse_input \in ParseInputs
    /\ parse_result = NotCalled

ParseNext == Parse

ParseSpec == ParseInit /\ [][ParseNext]_vars

\* ------------------------------------------------------------------ claims
Max(a, b) == IF a > b THEN a ELSE b

\* The version branch of a component that parses.
BranchId(c) == <<Pool[c].group, Pool[c].name, Parsed[c].base_version>>

\* The members of branch b in a listing.
Members(list, b) ==
    {c \in Range(list) : Parsed[c].parsed /\ BranchId(c) = b}

BranchIds(list) ==
    {BranchId(c) : c \in {x \in Range(list) : Parsed[x].parsed}}

\* a's (timestamp, build) is greater than or equal to b's, timestamp first.
NotOlder(a, b) ==
    \/ TupleLess(Parsed[b].datetime, Parsed[a].datetime)
    \/ /\ Parsed[a].datetime = Parsed[b].datetime
       /\ Parsed[a].build >= Parsed[b].build

\* The components one pass of process_snapshots over `list` marks.
PlanMarked(list, retain) ==
    UNION {Range(ToDelete(
               SortDescending(
                   BranchSnapshots(ArtifactComps(list, q.key), q.base_version)),
               retain)) :
           q \in Range(BranchQueue(list))}

PassPlanned == pc = "done" /\ fetched = "list"

\* C1: after a pass, each branch of S parseable components has exactly
\* max(0, S - R) marked and min(S, R) unmarked members, and no marked member
\* is newer, by (timestamp, build), than an unmarked one.
C1_RetentionPartition ==
    PassPlanned =>
        /\ marked \subseteq Range(components)
        /\ \A b \in BranchIds(components) :
            LET M == Members(components, b)
                D == marked \cap M
                K == M \ marked
            IN  /\ Cardinality(D) = Max(0, Cardinality(M) - retain_count)
                /\ Cardinality(K) = Min(Cardinality(M), retain_count)
                /\ \A k \in K, d \in D : NotOlder(k, d)

\* Three builds of one branch, the oldest listed second and carrying the
\* highest build number, retain count 2: only the oldest is marked.
C1_Witness ==
    /\ pc = "done"
    /\ retain_count = 2
    /\ components = <<3, 1, 2>>
    /\ marked = {1}

\* C2: a component whose version does not parse (the plain -SNAPSHOT one,
\* the one with an impossible date) is never marked, never passed to
\* delete_component, never the target of a DELETE and stays on the remote;
\* and the number marked in a branch counts its parseable members only.
C2_UnparseableNeverDeleted ==
    /\ \A c \in {PlainSnapshotId, BadDateId}
                \cup {x \in 1..NumRemote : ~Parsed[x].parsed} :
        /\ c \notin marked \cup deleteCalls \cup requested \cup Range(to_delete)
        /\ c \in remoteAtStart => c \in remote
    /\ PassPlanned =>
        \A b \in BranchIds(components) :
            Cardinality(marked \cap Members(components, b))
                = Max(0, Cardinality(Members(components, b)) - retain_count)

\* Retain count 0 empties the 1.0 branch and leaves both unparseable
\* components of the same artifact on the remote.
C2_Witness ==
    /\ pc = "done"
    /\ ~dry_run
    /\ retain_count = 0
    /\ {1, PlainSnapshotId, BadDateId} \subseteq remoteAtStart
    /\ 1 \in deleteCalls /\ 1 \notin remote
    /\ {PlainSnapshotId, BadDateId} \subseteq remote

\* C3: what a pass marks in a branch is what a pass over the members of
\* that branch alone marks.
C3_BranchIndependence ==
    PassPlanned =>
        \A b \in BranchIds(components) :
            marked \cap Members(components, b)
                = PlanMarked(
                      SelectSeq(components,
                                LAMBDA c : c \in Members(components, b)),
                      retain_count)

\* Two builds of app:lib 1.0 listed with a newer build of app:core 1.0,
\* retain count 1: the older app:lib build is marked, nothing else.
C3_Witness ==
    /\ pc = "done"
    /\ retain_count = 1
    /\ Range(components) = {1, 2, 7}
    /\ marked = {1}

\* C4: when a list request has used up its tries, or the fetch returned
\* None for any reason, no list reached process_snapshots, nothing was
\* marked, no delete_component call and no DELETE request was made, the
\* remote is as it was and the pass ended `failed`.
C4_FetchAllOrNothing ==
    (\/ callMethod = "GET" /\ callState = "raised"
     \/ fetched = "None")
        => /\ fetched = "None"
           /\ components = <<>>
           /\ pc = "done"
           /\ last_run_status = "failed"
           /\ marked = {}
           /\ deleteCalls = {}
           /\ requested = {}
           /\ remote = remoteAtStart

\* The request of a later page used up its tries after earlier pages had
\* been gathered.
C4_Witness ==
    /\ callMethod = "GET"
    /\ callState = "raised"
    /\ page_num > 1
    /\ all_components # <<>>
    /\ max_retries = 2

\* C5 as claimed: a delete_component call whose last answer was not-found
\* returns success.
C5_AbsentDeleteSucceeds ==
    (/\ callMethod = "DELETE"
     /\ callState \in {"returned", "raised"}
     /\ callLog # <<>>
     /\ callLog[Len(callLog)] = "not_found")
        => callTarget \notin failedDeletes

\* C6: once the fetch succeeded and the pass is over, the status is
\* partial_failure when some delete_component call returned False, and
\* success otherwise (also when no call was made).
C6_StatusPropagation ==
    PassPlanned =>
        /\ failedDeletes \subseteq deleteCalls
        /\ failedDeletes # {} => last_run_status = "partial_failure"
        /\ failedDeletes = {} => last_run_status = "success"

\* A pass in which one deletion failed and another succeeded.
C6_Witness ==
    /\ pc = "done"
    /\ failedDeletes # {}
    /\ deleteCalls \ failedDeletes # {}
    /\ last_run_status = "partial_failure"

\* C7: outside a dry run a marked component is either already passed to
\* delete_component or still ahead in the to_delete loop, whatever the
\* earlier calls returned; the loops run to their end; and at the end
\* delete_component has been invoked on every marked component.
C7_NoEarlyAbort ==
    /\ [](pc = "applying" /\ ~dry_run
            => marked \subseteq deleteCalls \cup Range(to_delete))
    /\ [](PassPlanned /\ ~dry_run => marked \subseteq deleteCalls)
    /\ (pc = "applying") ~> (pc = "done")

\* delete_component is running on a component after the deletion of
\* another one failed in the same pass.
C7_Witness ==
    /\ callMethod = "DELETE"
    /\ callTarget \in deleteCalls \ failedDeletes
    /\ failedDeletes # {}

\* C8: a dry run makes no delete_component call and no DELETE request and
\* leaves the remote as it was; it ends `success` when the fetch succeeded;
\* and a finished pass, dry or not, has marked what the planner computes.
C8_DryRun ==
    /\ dry_run =>
        /\ deleteCalls = {}
        /\ requested = {}
        /\ callMethod # "DELETE"
        /\ remote = remoteAtStart
        /\ PassPlanned => last_run_status = "success"
    /\ PassPlanned /\ last_run_status \in {"success", "partial_failure"}
        => marked = PlanMarked(components, retain_count)

\* A dry run that marked components and ended.
C8_Witness ==
    /\ dry_run
    /\ pc = "done"
    /\ marked # {}
    /\ last_run_status = "success"

Tries(log) == Cardinality({k \in 1..Len(log) : log[k] # "sleep"})

FailedTry(e) == e \in {"error", "lost", "not_found"}

CallEnded == callState \in {"returned", "raised"}

\* C9: a call makes at most max_retries tries; a try that yields a response
\* is the last one and the call returns it (204 included); tries and sleeps
\* alternate, each sleep lasts retry_delay, and no sleep follows the last
\* try; the call raises only after max_retries failed tries.
C9_RetryPolicy ==
    /\ Tries(callLog) <= max_retries
    /\ \A k \in 1..Len(callLog) :
        /\ (callLog[k] = "sleep") <=> (k % 2 = 0)
        /\ (callLog[k] # "sleep" /\ ~FailedTry(callLog[k]))
            => (k = Len(callLog) /\ callState = "returned")
    /\ waited = retry_delay * (Len(callLog) - Tries(callLog))
    /\ CallEnded =>
        /\ Len(callLog) % 2 = 1
        /\ waited = retry_delay * (Tries(callLog) - 1)
    /\ callState = "returned" =>
        /\ ~FailedTry(callLog[Len(callLog)])
        /\ callLog[Len(callLog)] = "deleted" <=> callStatus = 204
    /\ callState = "running" =>
        /\ Tries(callLog) < max_retries
        /\ callLog[Len(callLog)] = "sleep"
    /\ callState = "raised" =>
        /\ Tries(callLog) = max_retries
        /\ \A k \in 1..Len(callLog) :
            callLog[k] = "sleep" \/ FailedTry(callLog[k])

\* A call that raised after two failed tries and one sleep.
C9_Witness ==
    /\ callState = "raised"
    /\ max_retries = 2
    /\ Len(callLog) = 3
    /\ waited = retry_delay

\* C10 as claimed: a call that is over has returned a response or raised
\* NexusAPIError.
C10_TypedOutcome ==
    callState \in {"none", "running", "returned", "raised"}

\* The place of the "-" in front of the timestamp when v reads
\* <base>-<8 digits>.<6 digits>-<digits> from end to end, 0 when it does not.
FormDash(v) ==
    LET at == {i \in 1..Len(v) :
                 /\ i + 17 <= Len(v)
                 /\ v[i] = "-"
                 /\ IsDigits(SubSeq(v, i + 1, i + 8))
                 /\ v[i + 9] = "."
                 /\ IsDigits(SubSeq(v, i + 10, i + 15))
                 /\ v[i + 16] = "-"
                 /\ IsDigits(SubSeq(v, i + 17, Len(v)))}
    IN  IF at = {} THEN 0 ELSE CHOOSE i \in at : TRUE

\* C11 as claimed: a version string of the form whose digits are a calendar
\* date and time yields the base with -SNAPSHOT, the timestamp those digits
\* spell and the build number; every other string yields None.
C11_ParseContract ==
    parse_result.called =>
        LET v == parse_input
            i == FormDash(v)
            got == parse_result.value
        IN  IF i # 0 /\ Strptime(SubSeq(v, i + 1, i + 15)).valid
            THEN /\ got.parsed
                 /\ got.base_version = SubSeq(v, 1, i - 1) \o Dash \o SnapshotWord
                 /\ got.datetime = <<DecimalValue(SubSeq(v, i + 1, i + 4)),
                                     DecimalValue(SubSeq(v, i + 5, i + 6)),
                                     DecimalValue(SubSeq(v, i + 7, i + 8)),
                                     DecimalValue(SubSeq(v, i + 10, i + 11)),
                                     DecimalValue(SubSeq(v, i + 12, i + 13)),
                                     DecimalValue(SubSeq(v, i + 14, i + 15))>>
                 /\ got.build = DecimalValue(SubSeq(v, i + 17, Len(v)))
            ELSE ~got.parsed

\* A probe has been answered.
Answered == response.status_code # 0

\* The storage and connectivity checks of the answered probe all passed.
LiveChecksPass ==
    /\ response.checks.storage.log_file_writable
    /\ response.checks.storage.disk_space
    /\ response.checks.connectivity.nexus_reachable

\* C12 as claimed: whatever the state of the process, a probe is answered
\* 200 `healthy` when the log file is writable, the disk has room and the
\* remote is reachable, and 503 `unhealthy` otherwise; the body says
\* `healthy` exactly when the code is 200.
C12_HealthVerdict ==
    Answered =>
        /\ LiveChecksPass =>
               response.status_code = 200 /\ response.status = "healthy"
        /\ ~LiveChecksPass =>
               response.status_code = 503 /\ response.status = "unhealthy"
        /\ response.status = "healthy" <=> response.status_code = 200

\* C13: at no moment is more than one invocation of cleanup_job under way,
\* and one is under way exactly while the scheduler thread is inside a
\* pass; a time of day that comes during a pass does not start another.
C13_OnePassAtATime ==
    /\ running \in {0, 1}
    /\ running = 1 <=> pc \in {"fetching", "planning", "applying"}

\* A pass is deleting, the next time of day has come in the meantime, and a
\* probe has been answered since this pass began.
C13_Witness ==
    /\ pc = "applying"
    /\ to_delete # <<>>
    /\ due
    /\ running = 1
    /\ Answered
    /\ response.checks.application.last_run_time = passes

\* The items of the pages the remote has answered, page after page.
ServedItems == Flatten([k \in 1..Len(served) |-> served[k].items])

\* The token the remote handed out with its latest page; none (0) before
\* the first page.
LatestToken ==
    IF served = <<>> THEN 0 ELSE served[Len(served)].continuationToken

\* The latest try of the current call was answered with a page.
PageJustServed == callLog # <<>> /\ callLog[Len(callLog)] = "ok"

\* C14: the pages answered form a chain that starts without a token, each
\* request carrying the token of the page before; a try, first or repeated,
\* carries the token of the latest page answered; what is gathered is the
\* items of the answered pages in order, each page once; and a fetch that
\* succeeds returns exactly that, every component of the remote once.
C14_Pagination ==
    /\ served # <<>> => served[1].token = 0
    /\ \A k \in 1..(Len(served) - 1) :
        /\ served[k].continuationToken # 0
        /\ served[k + 1].token = served[k].continuationToken
    /\ callMethod = "GET" =>
        callTarget = IF PageJustServed THEN served[Len(served)].token
                     ELSE LatestToken
    /\ all_components = ServedItems
    /\ fetched = "list" =>
        /\ components = ServedItems
        /\ Range(components) = remoteAtStart
        /\ Len(components) = Cardinality(remoteAtStart)

\* A fetch of three pages whose last page needed a second try.
C14_Witness ==
    /\ fetched = "list"
    /\ Len(served) = 3
    /\ callMethod = "GET"
    /\ callLog = <<"error", "sleep", "ok">>
    /\ Len(components) > 2 * PageSize

\* C15: a fetch that has begun comes to an end; a fetch that returned a list
\* stopped at the first page answered without a token; and once the fetch
\* is over the pass sends no further list request.
C15_FetchTerminates ==
    /\ (pc = "fetching") ~> (fetched # "pending")
    /\ [](fetched = "list" =>
            /\ served # <<>>
            /\ \A k \in 1..Len(served) :
                (served[k].continuationToken = 0) <=> (k = Len(served)))
    /\ [][(fetched # "pending" /\ passes' = passes) =>
            /\ served' = served
            /\ callMethod' = "GET" => (callMethod = "GET" /\ callLog' = callLog)]_vars

\* A fetch over several pages has returned and the pass has ended.
C15_Witness ==
    /\ pc = "done"
    /\ fetched = "list"
    /\ Len(served) > 1
    /\ ~dry_run
    /\ deleteCalls # {}

\* The run record as the answered probe reported it.
Reported == response.checks.application

\* C16: last_run_time is written when a pass starts and by nothing else,
\* last_run_status when a pass ends and by nothing else; a probe writes
\* neither and reports both as they stand when it is answered.
C16_RunRecord ==
    /\ [][passes' = passes + 1 =>
            /\ last_run_time' = passes'
            /\ last_run_time' # last_run_time]_vars
    /\ [][running' = running - 1 =>
            last_run_status' \in {"success", "partial_failure", "failed"}]_vars
    /\ [][last_run_time' # last_run_time => passes' = passes + 1]_vars
    /\ [][last_run_status' # last_run_status => running' = running - 1]_vars
    /\ [][response' # response =>
            /\ response'.checks.application.last_run_time = last_run_time
            /\ response'.checks.application.last_run_status = last_run_status
            /\ UNCHANGED <<last_run_time, last_run_status>>]_vars
    /\ [](Answered => Reported.last_run_time <= last_run_time)

\* A probe answered during the second pass reports that pass's start and
\* the outcome of the first.
C16_Witness ==
    /\ passes = 2
    /\ running = 1
    /\ Answered
    /\ Reported.last_run_time = 2
    /\ Reported.last_run_status = "partial_failure"
    /\ last_run_status = "partial_failure"

\* C17: a pass that has ended left one of the three outcomes; a fetch that
\* failed, or an error inside the pass that nothing below cleanup_job
\* catches, left `failed`, and the pass still ended; a pass under way comes
\* to its end; and when the job is due after a pass, the scheduler starts
\* the next one.
C17_PassCompletes ==
    /\ [](pc = "done" =>
            last_run_status \in {"success", "partial_failure", "failed"})
    /\ [](fetched \in {"None", "raised"} =>
            pc = "done" /\ last_run_status = "failed")
    /\ [](callState = "fell_through" =>
            pc = "done" /\ running = 0 /\ last_run_status = "failed")
    /\ (running = 1) ~> (pc = "done")
    /\ (pc = "done" /\ due) ~> (pc = "fetching")

\* The scheduler has started a second pass after a first one in which an
\* AttributeError was caught by cleanup_job.
C17_Witness ==
    /\ passes = 2
    /\ pc = "fetching"
    /\ prevStatus = "failed"
    /\ max_retries = 0

\* Where c stands in a list that holds it once.
Position(list, c) == CHOOSE k \in 1..Len(list) : list[k] = c

\* a and b are two components of one branch with the same timestamp and the
\* same build number, a listed before b.
TiedInOrder(a, b) ==
    /\ a # b
    /\ Parsed[a].parsed /\ Parsed[b].parsed
    /\ BranchId(a) = BranchId(b)
    /\ SortKey(a) = SortKey(b)
    /\ Position(components, a) < Position(components, b)

\* C18: of two tied components of a branch the one listed earlier comes
\* first after the sort, so the later one is marked whenever the earlier one
\* is, and when the retain cutoff falls between them the earlier one is
\* kept and the later one marked.
C18_StableTies ==
    PassPlanned =>
        \A a, b \in Range(components) :
            TiedInOrder(a, b) =>
                LET sorted ==
                        SortDescending(
                            BranchSnapshots(
                                ArtifactComps(components, ArtifactKey(a)),
                                Parsed[a].base_version))
                IN  /\ Position(sorted, a) < Position(sorted, b)
                    /\ a \in marked => b \in marked
                    /\ (Position(sorted, a) = retain_count
                        /\ Position(sorted, b) = retain_count + 1)
                            => (a \notin marked /\ b \in marked)

\* Build 02 listed before build 2 of the same timestamp, an older build
\* behind them, retain count 1: build 02 is kept, build 2 is marked.
C18_Witness ==
    /\ pc = "done"
    /\ retain_count = 1
    /\ components = <<8, 1, 3>>
    /\ marked = {1, 3}

\* What a finished pass left of the branches it listed: each holds its
\* min(S, R) newest members and nothing else of the branch.
BranchesTrimmed ==
    \A b \in BranchIds(components) :
        LET M == Members(components, b)
            K == remote \cap M
        IN  /\ Cardinality(K) = Min(Cardinality(M), retain_count)
            /\ \A k \in K, d \in M \ K : NotOlder(k, d)

\* The current pass is not the first, deletes for real, and has ended after
\* a fetch that succeeded.
RerunPlanned == passes >= 2 /\ ~dry_run /\ PassPlanned

\* C19: a real pass that ended `success` left every branch trimmed; the
\* pass after a `success` marks and deletes nothing and, if its fetch
\* succeeds, ends `success`; the pass after a `partial_failure` marks, and
\* calls delete_component on, exactly the failed deletions whose component
\* is still on the remote.
C19_Rerun ==
    /\ (PassPlanned /\ ~dry_run /\ last_run_status = "success")
        => BranchesTrimmed
    /\ (passes >= 2 /\ ~dry_run /\ prevStatus = "success") =>
        /\ marked = {}
        /\ deleteCalls = {}
        /\ requested = {}
        /\ PassPlanned => last_run_status = "success"
    /\ (RerunPlanned /\ prevStatus = "partial_failure") =>
        /\ marked = prevFailed \cap remoteAtStart
        /\ deleteCalls = marked

\* After a pass in which one DELETE went unanswered and another was
\* refused, the next pass has attempted the refused one only.
C19_Witness ==
    /\ RerunPlanned
    /\ prevStatus = "partial_failure"
    /\ Cardinality(prevFailed) = 2
    /\ Cardinality(deleteCalls) = 1
    /\ deleteCalls \subseteq prevFailed

\* C19 as claimed: after `success` every branch is trimmed and the next
\* pass attempts no deletion and ends `success`; after `partial_failure` the
\* next pass attempts exactly the deletions that failed.
C19_AsClaimed ==
    /\ (PassPlanned /\ ~dry_run /\ last_run_status = "success")
        => BranchesTrimmed
    /\ (RerunPlanned /\ prevStatus = "success") =>
        /\ deleteCalls = {}
        /\ last_run_status = "success"
    /\ (RerunPlanned /\ prevStatus = "partial_failure") =>
        deleteCalls = prevFailed

\* C20: last_run_time is unset exactly until the first pass starts, and the
\* outcome is `never_run` until then; a probe that finds it unset answers
\* 503 `unhealthy` whatever the other checks say; a probe that finds it set
\* answers 200 `healthy` exactly when the storage and connectivity checks
\* pass, whatever outcome is recorded.
C20_VerdictAndRunRecord ==
    /\ last_run_time = 0 <=> passes = 0
    /\ last_run_time = 0 => last_run_status = "never_run"
    /\ Answered =>
        /\ Reported.last_run_time = 0 =>
            /\ Reported.last_run_status = "never_run"
            /\ response.status_code = 503
            /\ response.status = "unhealthy"
        /\ Reported.last_run_time # 0 =>
            /\ response.status_code = 200 <=> LiveChecksPass
            /\ response.status_code \in {200, 503}
            /\ response.status =
                   IF LiveChecksPass THEN "healthy" ELSE "unhealthy"

\* A probe answered 200 `healthy` after a pass that ended `failed`.
C20_Witness ==
    /\ Answered
    /\ pc = "done"
    /\ last_run_status = "failed"
    /\ Reported.last_run_status = "failed"
    /\ response.status_code = 200
    /\ response.status = "healthy"

====
